---- MODULE Spec2Model ----
(***************************************************************************)
(* Model of predict.py: the race-prediction pipeline (points, mean finish, *)
(* track history, scoring and ranking) over a fixture results provider.    *)
(***************************************************************************)
EXTENDS Integers, Sequences, FiniteSets, TLC

VARIABLES year, circuit_name, now, fieldSize, down,
          pc, idx, run, glitches,
          valid_rounds, points, avg_finish, track_perf,
          season_drivers, name_lookup, df, output, prevOutput,
          fetched, queried

vars == <<year, circuit_name, now, fieldSize, down, pc, idx, run, glitches,
          valid_rounds, points, avg_finish, track_perf,
          season_drivers, name_lookup, df, output, prevOutput,
          fetched, queried>>

(***************************************************************************)
(* year, circuit_name   the inputs of predict_race                         *)
(* now                  datetime.utcnow(), on the scale of Date            *)
(* fieldSize, down      the provider: how many drivers a Race lists, and   *)
(*                      the sessions and schedules whose fetch raises      *)
(* pc, idx              where predict_race is, and the points loop's round *)
(* run, prevOutput      the number of the run and the table printed by the *)
(*                      run before                                         *)
(* glitches             how often the provider changed during a run        *)
(* valid_rounds .. df   the locals of predict_race; df before the rounding *)
(* output               the printed table (numbers in hundredths)          *)
(* fetched, queried     the sessions asked of the provider in this run and *)
(*                      the seasons the track history asked about          *)
(***************************************************************************)

(* ---------------- bounds of the model ---------------- *)
\* rounds per season, drivers, drivers of a short Race, target seasons after
\* MinSeason, hash seeds, runs, provider changes, track-history failures
NumRounds == 2
NumDrivers == 11
ShortField == 2
YearSpan == 4
MaxSeed == 2
MaxRuns == 2
MaxGlitches == 1
MaxPastDown == 1

(* ---------------- program constants ---------------- *)
FIA_POINTS_RACE == <<25, 18, 15, 12, 10, 8, 6, 4, 2, 1>>
FIA_POINTS_SPRINT == <<8, 7, 6, 5, 4, 3, 2, 1>>
MinSeason == 2018
Lookback == 3
DefaultPos == 20
W_POINTS == 20
W_AVG_FINISH == 25
W_TRACK_AVG == 25

Kinds == {"R", "Sprint"}
Drivers == 1..NumDrivers
TargetYears == MinSeason..(MinSeason + YearSpan)
AllYears == (MinSeason - Lookback)..(MinSeason + YearSpan)

(* ---------------- rationals (Python floats of the averages) ---------------- *)
Abs(x) == IF x < 0 THEN -x ELSE x

RECURSIVE GCD(_, _)
GCD(a, b) == IF b = 0 THEN a ELSE GCD(b, a % b)

Frac(n, d) ==
    LET g == GCD(Abs(n), d) IN [num |-> n \div g, den |-> d \div g]

Less(a, b) == a.num * b.den < b.num * a.den

RECURSIVE SumSeq(_)
SumSeq(s) == IF s = <<>> THEN 0 ELSE Head(s) + SumSeq(Tail(s))

\* sum(pos_list)/len(pos_list) if pos_list else 20
Mean(pos_list) ==
    IF pos_list # <<>> THEN Frac(SumSeq(pos_list), Len(pos_list))
    ELSE Frac(DefaultPos, 1)

\* round(x, 2), in hundredths, ties to even
Round2(x) ==
    LET n == 100 * x.num
        q == n \div x.den
        r == n % x.den
    IN IF 2 * r < x.den THEN q
       ELSE IF 2 * r > x.den THEN q + 1
       ELSE IF q % 2 = 0 THEN q ELSE q + 1

(* ---------------- the results and schedule provider ---------------- *)
FullName(d) == <<"name", d>>

Entry(d, pos) == [DriverNumber |-> d, FullName |-> FullName(d), Position |-> pos]

Fwd(n) == [i \in 1..n |-> Entry(i, i)]

Bwd(n) == [i \in 1..n |-> Entry(n + 1 - i, i)]

SessionContent(y, r, kind) ==
    IF kind = "R"
    THEN IF (y + r) % 2 = 0 THEN Fwd(fieldSize) ELSE Bwd(fieldSize)
    ELSE IF (y + r) % 2 = 0 THEN Bwd(NumDrivers) ELSE Fwd(NumDrivers)

Date(y, r) == y * 100 + r

EventName(y, r) ==
    IF y % 3 = 2
    THEN IF r = 1 THEN <<"a", "b">>
         ELSE IF r = 2 THEN <<"A", "B", "2">> ELSE <<"e", "f">>
    ELSE IF y % 3 = 0
    THEN IF r = 1 THEN <<"c", "d">>
         ELSE IF r = 2 THEN <<"x", "A", "b">> ELSE <<"e", "f">>
    ELSE IF r = 1 THEN <<"c", "d">> ELSE <<"e", "f">>

Schedule(y) ==
    [r \in 1..NumRounds |->
        [EventName |-> EventName(y, r), RoundNumber |-> r, EventDate |-> Date(y, r)]]

SchedItem(y) == <<y, 0, "Schedule">>

\* fastf1.get_session(y, rnd, kind) followed by load(): the results or a failure
get_session(y, rnd, kind) ==
    IF <<y, rnd, kind>> \in down
    THEN [ok |-> FALSE, results |-> <<>>]
    ELSE [ok |-> TRUE, results |-> SessionContent(y, rnd, kind)]

\* fastf1.get_event_schedule(y)
get_event_schedule(y) ==
    IF SchedItem(y) \in down
    THEN [ok |-> FALSE, events |-> <<>>]
    ELSE [ok |-> TRUE, events |-> Schedule(y)]

Lower(c) == IF c = "A" THEN "a" ELSE IF c = "B" THEN "b" ELSE c

\* str.contains(circuit_name, case=False)
Contains(name, pat) ==
    \E i \in 0..(Len(name) - Len(pat)) :
        \A j \in 1..Len(pat) : Lower(name[i + j]) = Lower(pat[j])

\* schedule[schedule['EventName'].str.contains(...)]
circuit_event(events, pat) ==
    SelectSeq(events, LAMBDA e : Contains(e.EventName, pat))

(* ---------------- get_total_driver_points ---------------- *)
EmptyMap == [k \in {} |-> 0]

Get(m, k, dflt) == IF k \in DOMAIN m THEN m[k] ELSE dflt

Min(a, b) == IF a < b THEN a ELSE b

\* for i, drv in enumerate(results, start=1): if i <= len(table): points[..] += table[i-1]
\* (every scoring row adds its table entry to the row's driver, creating the key)
Award(pts, results, table) ==
    LET scored == [i \in 1..Min(Len(results), Len(table)) |->
                     [DriverNumber |-> results[i].DriverNumber, Value |-> table[i]]]
        gained(k) == LET mine == SelectSeq(scored, LAMBDA e : e.DriverNumber = k)
                     IN SumSeq([i \in 1..Len(mine) |-> mine[i].Value])
    IN [k \in DOMAIN pts \cup {scored[i].DriverNumber : i \in 1..Len(scored)} |->
          Get(pts, k, 0) + gained(k)]

\* the sessions one iteration of the points loop asks the provider for
PointsFetches(y, rnd) ==
    IF get_session(y, rnd, "R").ok
    THEN {<<y, rnd, "R">>, <<y, rnd, "Sprint">>}
    ELSE {<<y, rnd, "R">>}

\* variant: a failed Sprint fetch drops the whole round
PointsRound_SkipRound(y, rnd, pts) ==
    LET race == get_session(y, rnd, "R")
        sprint == get_session(y, rnd, "Sprint")
    IN IF ~race.ok \/ ~sprint.ok THEN pts
       ELSE Award(Award(pts, race.results, FIA_POINTS_RACE),
                  sprint.results, FIA_POINTS_SPRINT)

\* one iteration of the loop over valid_rounds
PointsRound(y, rnd, pts) ==
    LET race == get_session(y, rnd, "R")
        sprint == get_session(y, rnd, "Sprint")
    IN IF ~race.ok THEN pts
       ELSE LET p1 == Award(pts, race.results, FIA_POINTS_RACE)
            IN IF ~sprint.ok THEN p1
               ELSE Award(p1, sprint.results, FIA_POINTS_SPRINT)

\* variant: the loop stops at the first round whose Race fetch fails
RECURSIVE PointsLoop_Break(_, _, _)
PointsLoop_Break(y, rounds, pts) ==
    IF rounds = <<>> THEN pts
    ELSE IF ~get_session(y, Head(rounds), "R").ok THEN pts
    ELSE PointsLoop_Break(y, Tail(rounds), PointsRound(y, Head(rounds), pts))

RECURSIVE PointsLoop(_, _, _)
PointsLoop(y, rounds, pts) ==
    IF rounds = <<>> THEN pts
    ELSE PointsLoop(y, Tail(rounds), PointsRound(y, Head(rounds), pts))

get_total_driver_points(y, rounds) == PointsLoop(y, rounds, EmptyMap)

(* ---------------- get_avg_finish_pos ---------------- *)
\* for drv in results: finishes[key(drv)].append(int(drv.Position)) on a
\* defaultdict(list): each key gets the positions of its rows, in row order
AppendRows(lists, rows) ==
    LET got(k) == LET mine == SelectSeq(rows, LAMBDA e : e.Key = k)
                  IN [i \in 1..Len(mine) |-> mine[i].Position]
    IN [k \in DOMAIN lists \cup {rows[i].Key : i \in 1..Len(rows)} |->
          Get(lists, k, <<>>) \o got(k)]

AppendPositions(fin, results) ==
    AppendRows(fin, [i \in 1..Len(results) |->
                      [Key |-> results[i].DriverNumber, Position |-> results[i].Position]])

\* variant: a failed round counts as the default position for the known drivers
AvgRound_PenaliseSkip(y, rnd, fin) ==
    LET race == get_session(y, rnd, "R")
    IN IF ~race.ok THEN [k \in DOMAIN fin |-> Append(fin[k], DefaultPos)]
       ELSE AppendPositions(fin, race.results)

\* variant: only the point-scoring rows are recorded
AvgRound_TopTen(y, rnd, fin) ==
    LET race == get_session(y, rnd, "R")
    IN IF ~race.ok THEN fin
       ELSE AppendPositions(fin,
                SelectSeq(race.results, LAMBDA e : e.Position <= Len(FIA_POINTS_RACE)))

AvgRound(y, rnd, fin) ==
    LET race == get_session(y, rnd, "R")
    IN IF ~race.ok THEN fin ELSE AppendPositions(fin, race.results)

Means(lists) == [k \in DOMAIN lists |-> Mean(lists[k])]

RECURSIVE AvgLoop(_, _, _)
AvgLoop(y, rounds, fin) ==
    IF rounds = <<>> THEN fin
    ELSE AvgLoop(y, Tail(rounds), AvgRound(y, Head(rounds), fin))

get_avg_finish_pos(y, rounds) == Means(AvgLoop(y, rounds, EmptyMap))

(* ---------------- get_past_track_performance ---------------- *)
\* variant: the lookback window without the floor
PastYears_NoFloor(yr) == [i \in 1..Lookback |-> yr - Lookback + i - 1]

\* [y for y in range(year - 3, year) if y >= 2018]
PastYears(yr) ==
    LET n == Cardinality({y \in (yr - Lookback)..(yr - 1) : y >= MinSeason})
    IN [i \in 1..n |-> yr - n + i - 1]

AppendNamed(perf, results) ==
    AppendRows(perf, [i \in 1..Len(results) |->
                       [Key |-> results[i].FullName, Position |-> results[i].Position]])

\* the round of season y the track loop fetches, 0 when it fetches none
TrackRound(y, pat) ==
    LET schedule == get_event_schedule(y)
        ev == circuit_event(schedule.events, pat)
    IN IF ~schedule.ok \/ ev = <<>> THEN 0 ELSE ev[1].RoundNumber

TrackSeason(y, pat, perf) ==
    LET rnd == TrackRound(y, pat)
        race == get_session(y, rnd, "R")
    IN IF rnd = 0 \/ ~race.ok THEN perf
       ELSE AppendNamed(perf, race.results)

RECURSIVE TrackLoop(_, _, _)
TrackLoop(years, pat, perf) ==
    IF years = <<>> THEN perf
    ELSE TrackLoop(Tail(years), pat, TrackSeason(Head(years), pat, perf))

get_past_track_performance(pat, yr) == Means(TrackLoop(PastYears(yr), pat, EmptyMap))

\* the sessions get_past_track_performance asks the provider for
TrackFetches(pat, yr) ==
    {<<PastYears(yr)[i], TrackRound(PastYears(yr)[i], pat), "R">> :
        i \in {j \in 1..Len(PastYears(yr)) : TrackRound(PastYears(yr)[j], pat) # 0}}

(* ---------------- predict_race: join, score, rank ---------------- *)
\* past_races["RoundNumber"] of the rows with EventDate < now
ValidRounds(events, t) ==
    LET past == SelectSeq(events, LAMBDA e : e.EventDate < t)
    IN [i \in 1..Len(past) |-> past[i].RoundNumber]

SeasonRound(y, rnd, sd) ==
    LET race == get_session(y, rnd, "R")
    IN IF ~race.ok THEN sd
       ELSE sd \cup {race.results[i].DriverNumber : i \in 1..Len(race.results)}

NamesRound(y, rnd, nl) ==
    LET race == get_session(y, rnd, "R")
    IN IF ~race.ok THEN nl
       ELSE [d \in DOMAIN nl \cup {race.results[i].DriverNumber : i \in 1..Len(race.results)} |->
               IF \E i \in 1..Len(race.results) : race.results[i].DriverNumber = d
               THEN (CHOOSE e \in {race.results[i] : i \in 1..Len(race.results)} :
                        e.DriverNumber = d).FullName
               ELSE nl[d]]

RECURSIVE SeasonLoop(_, _, _)
SeasonLoop(y, rounds, sd) ==
    IF rounds = <<>> THEN sd
    ELSE SeasonLoop(y, Tail(rounds), SeasonRound(y, Head(rounds), sd))

RECURSIVE NamesLoop(_, _, _)
NamesLoop(y, rounds, nl) ==
    IF rounds = <<>> THEN nl
    ELSE NamesLoop(y, Tail(rounds), NamesRound(y, Head(rounds), nl))

\* iteration order of a set of driver numbers under hash seed s: the table is
\* walked slot by slot, and the seed decides which driver number sits in a slot
SlotDriver(s, k) == ((k + s - 2) % NumDrivers) + 1

SetOrder(S, s) ==
    SelectSeq([k \in 1..NumDrivers |-> SlotDriver(s, k)], LAMBDA d : d \in S)

CustomScore(pts, avg, trk) ==
    Frac(pts * W_POINTS * avg.den * trk.den
           - avg.num * W_AVG_FINISH * trk.den
           - trk.num * W_TRACK_AVG * avg.den,
         avg.den * trk.den)

DataRow(drv, pmap, amap, tmap, names) ==
    LET name == names[drv]
        pts == Get(pmap, drv, 0)
        avg_pos == Get(amap, drv, Frac(DefaultPos, 1))
        track_pos == Get(tmap, name, Frac(DefaultPos, 1))
    IN [DriverNumber |-> drv, Driver |-> name, Points |-> pts,
        AvgFinishPos |-> avg_pos, TrackAvgPos |-> track_pos,
        CustomScore |-> CustomScore(pts, avg_pos, track_pos)]

\* a row goes after every row whose score is not below its own
InsertDesc(sorted, row) ==
    LET k == Cardinality({i \in 1..Len(sorted) :
                            ~Less(sorted[i].CustomScore, row.CustomScore)})
    IN SubSeq(sorted, 1, k) \o <<row>> \o SubSeq(sorted, k + 1, Len(sorted))

RECURSIVE SortFrom(_, _)
SortFrom(sorted, rows) ==
    IF rows = <<>> THEN sorted
    ELSE SortFrom(InsertDesc(sorted, Head(rows)), Tail(rows))

\* variant: the sorted frame is thrown away
sort_values_Discarded(rows) == rows

\* df.sort_values("CustomScore", ascending=False)
sort_values(rows) == SortFrom(<<>>, rows)

\* df["PredictedRank"] = df.index + 1, after the sort and reset_index
WithRank(sorted) ==
    [i \in 1..Len(sorted) |-> sorted[i] @@ [PredictedRank |-> i]]

Ranked(order, pmap, amap, tmap, names) ==
    CHOOSE t \in
        {WithRank(sorted) :
            sorted \in {sort_values(data) :
                data \in {[i \in 1..Len(o) |-> DataRow(o[i], pmap, amap, tmap, names)] :
                    o \in {order}}}} : TRUE

Printed(table) ==
    [i \in 1..Len(table) |->
        [PredictedRank |-> table[i].PredictedRank, Driver |-> table[i].Driver,
         Points |-> Round2(Frac(table[i].Points, 1)),
         AvgFinishPos |-> Round2(table[i].AvgFinishPos),
         TrackAvgPos |-> Round2(table[i].TrackAvgPos),
         CustomScore |-> Round2(table[i].CustomScore)]]

(* ---------------- initial states ---------------- *)
NowOptions(yr) == {Date(yr, NumRounds) + 1, Date(yr, NumRounds), Date(yr - 1, 1)}

Circuits == {<<"a", "B">>, <<"z">>}

\* sessions of rounds that have not been run yet have no data
NotRun(t) ==
    {s \in AllYears \X (1..NumRounds) \X Kinds : Date(s[1], s[2]) >= t}

TargetSessions(yr) == {<<yr, r, k>> : r \in 1..NumRounds, k \in Kinds}

PastItems(yr, pat) ==
    {SchedItem(yr)} \cup
    UNION {{SchedItem(y)} \cup
           {<<y, r, "R">> : r \in {r2 \in 1..NumRounds :
                                     Contains(EventName(y, r2), pat)}} :
           y \in {y2 \in (yr - Lookback)..(yr - 1) : y2 >= MinSeason}}

\* what the provider cannot serve: any sessions of the target season, or a few
\* of the schedules and races the track history asks for
DownPatterns(yr, pat) ==
    (SUBSET TargetSessions(yr)) \cup
    {p \in SUBSET PastItems(yr, pat) : Cardinality(p) <= MaxPastDown}

Init ==
    /\ year \in TargetYears
    /\ circuit_name \in Circuits
    /\ now \in NowOptions(year)
    /\ fieldSize \in {ShortField, NumDrivers}
    /\ \E D \in DownPatterns(year, circuit_name) : down = NotRun(now) \cup D
    /\ pc = "start"
    /\ idx = 1
    /\ run = 1
    /\ glitches = 0
    /\ valid_rounds = <<>>
    /\ points = EmptyMap
    /\ avg_finish = EmptyMap
    /\ track_perf = EmptyMap
    /\ season_drivers = {}
    /\ name_lookup = EmptyMap
    /\ df = <<>>
    /\ output = <<>>
    /\ prevOutput = <<>>
    /\ fetched = {}
    /\ queried = {}

(* ---------------- actions ---------------- *)
provider == <<year, circuit_name, now, fieldSize, down>>
locals == <<valid_rounds, points, avg_finish, track_perf,
            season_drivers, name_lookup, df, output>>

\* get_event_schedule(year) raises: the exception reaches the main block
ScheduleError ==
    /\ pc = "start"
    /\ ~get_event_schedule(year).ok
    /\ pc' = "error"
    /\ UNCHANGED <<provider, idx, run, glitches, locals, prevOutput, fetched, queried>>

\* circuit_event.empty: report and return
NoMatch ==
    /\ pc = "start"
    /\ get_event_schedule(year).ok
    /\ circuit_event(get_event_schedule(year).events, circuit_name) = <<>>
    /\ pc' = "nomatch"
    /\ UNCHANGED <<provider, idx, run, glitches, locals, prevOutput, fetched, queried>>

\* the rounds that occurred before now
Resolve ==
    /\ pc = "start"
    /\ get_event_schedule(year).ok
    /\ circuit_event(get_event_schedule(year).events, circuit_name) # <<>>
    /\ valid_rounds' = ValidRounds(get_event_schedule(year).events, now)
    /\ pc' = "points"
    /\ idx' = 1
    /\ UNCHANGED <<provider, run, glitches, points, avg_finish, track_perf,
                   season_drivers, name_lookup, df, output, prevOutput,
                   fetched, queried>>

\* one iteration of get_total_driver_points's loop
PointsStep ==
    /\ pc = "points"
    /\ idx <= Len(valid_rounds)
    /\ points' = PointsRound(year, valid_rounds[idx], points)
    /\ fetched' = fetched \cup PointsFetches(year, valid_rounds[idx])
    /\ idx' = idx + 1
    /\ UNCHANGED <<provider, pc, run, glitches, valid_rounds, avg_finish, track_perf,
                   season_drivers, name_lookup, df, output, prevOutput, queried>>

PointsReturn ==
    /\ pc = "points"
    /\ idx > Len(valid_rounds)
    /\ pc' = "avg"
    /\ UNCHANGED <<provider, idx, run, glitches, locals, prevOutput, fetched, queried>>

\* avg_finish = get_avg_finish_pos(year, valid_rounds)
AvgFinish ==
    /\ pc = "avg"
    /\ avg_finish' = get_avg_finish_pos(year, valid_rounds)
    /\ fetched' = fetched \cup {<<year, valid_rounds[i], "R">> : i \in 1..Len(valid_rounds)}
    /\ pc' = "track"
    /\ UNCHANGED <<provider, idx, run, glitches, valid_rounds, points, track_perf,
                   season_drivers, name_lookup, df, output, prevOutput, queried>>

\* track_perf = get_past_track_performance(circuit_name, year)
TrackPerformance ==
    /\ pc = "track"
    /\ track_perf' = get_past_track_performance(circuit_name, year)
    /\ queried' = queried \cup {PastYears(year)[i] : i \in 1..Len(PastYears(year))}
    /\ fetched' = fetched \cup TrackFetches(circuit_name, year)
    /\ pc' = "season"
    /\ UNCHANGED <<provider, idx, run, glitches, valid_rounds, points, avg_finish,
                   season_drivers, name_lookup, df, output, prevOutput>>

\* collect the season's drivers, build the rows in the set's iteration order,
\* score, sort, rank, round and print
Rank ==
    /\ pc = "season"
    /\ season_drivers' = SeasonLoop(year, valid_rounds, {})
    /\ name_lookup' = NamesLoop(year, valid_rounds, EmptyMap)
    /\ fetched' = fetched \cup {<<year, valid_rounds[i], "R">> : i \in 1..Len(valid_rounds)}
    /\ \E seed \in 1..MaxSeed :
          df' = Ranked(SetOrder(season_drivers', seed), points, avg_finish,
                       track_perf, name_lookup')
    /\ output' = Printed(df')
    /\ pc' = "done"
    /\ UNCHANGED <<provider, idx, run, glitches, valid_rounds, points, avg_finish,
                   track_perf, prevOutput, queried>>

\* the program is run again on the same season and circuit, the provider's data
\* being what it was all through the run before
Restart ==
    /\ pc = "done"
    /\ run < MaxRuns
    /\ glitches = 0
    /\ run' = run + 1
    /\ prevOutput' = output
    /\ pc' = "start"
    /\ idx' = 1
    /\ valid_rounds' = <<>>
    /\ points' = EmptyMap
    /\ avg_finish' = EmptyMap
    /\ track_perf' = EmptyMap
    /\ season_drivers' = {}
    /\ name_lookup' = EmptyMap
    /\ df' = <<>>
    /\ output' = <<>>
    /\ fetched' = {}
    /\ queried' = {}
    /\ UNCHANGED <<provider, glitches>>

\* a Race session of a completed round becomes (un)available after the points and
\* mean-finish passes and before the season-driver pass
Glitch ==
    /\ pc = "season"
    /\ glitches < MaxGlitches
    /\ \E rnd \in 1..NumRounds :
          /\ Date(year, rnd) < now
          /\ down' = IF <<year, rnd, "R">> \in down
                     THEN down \ {<<year, rnd, "R">>}
                     ELSE down \cup {<<year, rnd, "R">>}
    /\ glitches' = glitches + 1
    /\ UNCHANGED <<year, circuit_name, now, fieldSize, pc, idx, run, locals,
                   prevOutput, fetched, queried>>

Next ==
    \/ ScheduleError
    \/ NoMatch
    \/ Resolve
    \/ PointsStep
    \/ PointsReturn
    \/ AvgFinish
    \/ TrackPerformance
    \/ Rank
    \/ Restart
    \/ Glitch

Spec == Init /\ [][Next]_vars

(* ======================= properties ======================= *)
RankIn(results, d) ==
    IF \E i \in 1..Len(results) : results[i].DriverNumber = d
    THEN CHOOSE i \in 1..Len(results) : results[i].DriverNumber = d
    ELSE 0

RaceTablePoints(rank) ==
    IF rank \in 1..10 THEN <<25, 18, 15, 12, 10, 8, 6, 4, 2, 1>>[rank] ELSE 0

SprintTablePoints(rank) == IF rank \in 1..8 THEN 9 - rank ELSE 0

CurRace == get_session(year, valid_rounds[idx], "R")
CurSprint == get_session(year, valid_rounds[idx], "Sprint")
InPointsLoop == pc = "points" /\ idx <= Len(valid_rounds)

Prefix(k) == SubSeq(valid_rounds, 1, k)

MapSum(a, b) == [k \in DOMAIN a \cup DOMAIN b |-> Get(a, k, 0) + Get(b, k, 0)]

\* C1: when the Race fetch of a round fails and the Sprint fetch would succeed,
\* the points loop still adds the sprint points 8..1 of ranks 1..8 of that round.
C1_SprintAwardedWithoutRace ==
    [][(InPointsLoop /\ ~CurRace.ok /\ CurSprint.ok) =>
          \A d \in Drivers :
             Get(points', d, 0) =
                Get(points, d, 0) + SprintTablePoints(RankIn(CurSprint.results, d))]_vars

\* C2: when the Race fetch of a round succeeds and the Sprint fetch fails, every
\* driver's points grow by exactly the race-table points of the driver's race rank
\* (0 beyond rank 10) and the loop goes on to the next round.
C2_RaceOnlyRound ==
    [][(InPointsLoop /\ CurRace.ok /\ ~CurSprint.ok) =>
          /\ pc' = "points"
          /\ idx' = idx + 1
          /\ DOMAIN points' \subseteq Drivers
          /\ \A d \in Drivers :
                Get(points', d, 0) =
                   Get(points, d, 0) + RaceTablePoints(RankIn(CurRace.results, d))]_vars

C2_Witness ==
    /\ pc = "points"
    /\ idx > 1
    /\ idx <= Len(valid_rounds)
    /\ get_session(year, valid_rounds[idx - 1], "R").ok
    /\ ~get_session(year, valid_rounds[idx - 1], "Sprint").ok
    /\ fieldSize > 10
    /\ \E d \in DOMAIN points : points[d] = 25
    /\ \E d \in Drivers : d \notin DOMAIN points

OutputNames == {output[i].Driver : i \in 1..Len(output)}

\* the drivers found in an available result of kind k of a completed round
Appeared(k) ==
    {d \in Drivers :
        \E r \in 1..NumRounds :
            /\ Date(year, r) < now
            /\ get_session(year, r, k).ok
            /\ RankIn(get_session(year, r, k).results, d) # 0}

\* C3: a second run of the pipeline on the same season, circuit, completed rounds
\* and unchanged provider data prints the ranking of the first run, ties included.
C3_SameRankingTwice ==
    (pc = "done" /\ run > 1 /\ glitches = 0) => output = prevOutput

\* C4: the drivers of the output are exactly the drivers found in some session
\* result (Race or Sprint) of a completed round of the target season.
C4_OutputIffAppeared ==
    (pc = "done" /\ glitches = 0) =>
        OutputNames = {FullName(d) : d \in Appeared("R") \cup Appeared("Sprint")}

\* C5: no pass of a request fetches the results of a round whose event date is
\* not strictly before the current instant.
C5_NoLookahead == \A s \in fetched : Date(s[1], s[2]) < now

RECURSIVE PosSum(_, _)
PosSum(d, k) ==
    IF k = 0 THEN 0
    ELSE LET race == get_session(year, valid_rounds[k], "R")
             i == RankIn(race.results, d)
         IN PosSum(d, k - 1) + (IF race.ok /\ i # 0 THEN race.results[i].Position ELSE 0)

PosCount(d) ==
    Cardinality({k \in 1..Len(valid_rounds) :
                   LET race == get_session(year, valid_rounds[k], "R")
                   IN race.ok /\ RankIn(race.results, d) # 0})

InWindow(y) == y >= year - 3 /\ y <= year - 1 /\ y >= 2018

C7_LookbackWindow ==
    /\ \A y \in queried : InWindow(y)
    /\ \A s \in fetched : s[1] = year \/ InWindow(s[1])

C7_Witness ==
    /\ pc = "season"
    /\ queried # {}
    /\ year - 3 < 2018
    /\ \E y \in queried : TrackRound(y, circuit_name) = 0

\* C8: the ranks are exactly 1..N, the rows are in descending order of the
\* unrounded composite score, and rank 1 has the maximum score.
C8_DenseDescendingRanks ==
    pc = "done" =>
        /\ Len(df) = Cardinality(season_drivers)
        /\ Len(output) = Len(df)
        /\ {df[i].DriverNumber : i \in 1..Len(df)} = season_drivers
        /\ \A i \in 1..Len(df) :
              df[i].PredictedRank = i /\ output[i].PredictedRank = i
        /\ \A i, j \in 1..Len(df) :
              i < j => ~Less(df[i].CustomScore, df[j].CustomScore)
        /\ \A j \in 1..Len(df) : ~Less(df[1].CustomScore, df[j].CustomScore)

C8_Witness ==
    /\ pc = "done"
    /\ Len(df) > 2
    /\ \E i \in 1..Len(df) : Less(df[i].CustomScore, df[1].CustomScore)
    /\ \E i \in 2..Len(df) : df[i].CustomScore = df[i - 1].CustomScore

\* C9: the points are non-negative, the running result after k rounds is the
\* result of a direct run on the first k rounds, and a direct run on k+1 rounds
\* is the sum of the run on the first k rounds and of round k+1 alone.
C9_PointsAdditive ==
    pc = "points" =>
        /\ \A d \in DOMAIN points : points[d] >= 0
        /\ points = get_total_driver_points(year, Prefix(idx - 1))
        /\ \A k \in 0..(Len(valid_rounds) - 1) :
              get_total_driver_points(year, Prefix(k + 1)) =
                 MapSum(get_total_driver_points(year, Prefix(k)),
                        get_total_driver_points(year, <<valid_rounds[k + 1]>>))

C9_Witness ==
    /\ pc = "points"
    /\ idx > Len(valid_rounds)
    /\ Len(valid_rounds) > 1
    /\ \E k \in 1..Len(valid_rounds) : ~get_session(year, valid_rounds[k], "R").ok
    /\ \E k \in 1..Len(valid_rounds) :
          get_session(year, valid_rounds[k], "R").ok /\
          get_session(year, valid_rounds[k], "Sprint").ok
    /\ points # EmptyMap

C10_DefaultAfterGlitch ==
    /\ pc = "done"
    /\ glitches > 0
    /\ \E i \in 1..Len(df) :
          /\ df[i].DriverNumber \notin DOMAIN avg_finish
          /\ df[i].AvgFinishPos = Frac(20, 1)
          /\ df[i].Points = 0
====
